---- MODULE Spec2Model ----
(***************************************************************************)
(* MoTeC-Cleanup: lap classification, personal-best curation, comparison   *)
(* against the previous snapshot, undo and cleanup (src/src/scan.py,       *)
(* src/src/config_editor.py, src/src/main.py).                             *)
(*                                                                         *)
(* Durations are integers in ticks of 0.1 ms, so that a lap time carries   *)
(* more precision than the millisecond that a file name keeps.  Tolerances *)
(* are whole percents.  A name (track, car, file name) is the sequence of  *)
(* its '_'-separated tokens, which is what str.split('_') sees.            *)
(***************************************************************************)
EXTENDS Integers, Sequences, FiniteSets, TLC

\* ------------------------------------------------------------------------
\* Units
\* ------------------------------------------------------------------------
TicksPerMs == 10
MsPerSec == 1000
SecPerMin == 60
TicksPerSec == TicksPerMs * MsPerSec
TicksPerMin == TicksPerSec * SecPerMin

Sec(s) == s * TicksPerSec
Ms(m) == m * TicksPerMs

Min2(a, b) == IF a <= b THEN a ELSE b

\* A sequence or a function given by a rule, as an explicit tuple or table
\* (so that its elements are computed once).
Tup(s) == s \o << >>
Table(f) == f @@ << >>

\* ------------------------------------------------------------------------
\* Lap classification (scan.py)
\* ------------------------------------------------------------------------

\* dry_max = dry*(1+tol), wet_min = wet*(1-tol); both kept multiplied by 100
\* so that the comparison stays exact with tol in percent.
check_threshold_overlap(dry_benchmark, wet_benchmark, tolerance) ==
    LET dry_max == dry_benchmark * (100 + tolerance)
        wet_min == wet_benchmark * (100 - tolerance)
    IN  [overlaps |-> wet_min <= dry_max, dry_max |-> dry_max, wet_min |-> wet_min]

classify_lap_wetfirst(lap_time, dry_benchmark, wet_benchmark, tolerance) ==
    LET dry_min == dry_benchmark * (100 - tolerance)
        dry_max == dry_benchmark * (100 + tolerance)
        wet_min == wet_benchmark * (100 - tolerance)
        wet_max == wet_benchmark * (100 + tolerance)
        lap == lap_time * 100
    IN  IF wet_min <= lap /\ lap <= wet_max THEN "wet"
        ELSE IF dry_min <= lap /\ lap <= dry_max THEN "dry"
        ELSE IF dry_max < wet_min /\ dry_max < lap /\ lap < wet_min THEN "gap"
        ELSE "invalid"

classify_lap_nogap(lap_time, dry_benchmark, wet_benchmark, tolerance) ==
    LET dry_min == dry_benchmark * (100 - tolerance)
        dry_max == dry_benchmark * (100 + tolerance)
        wet_min == wet_benchmark * (100 - tolerance)
        wet_max == wet_benchmark * (100 + tolerance)
        lap == lap_time * 100
    IN  IF dry_min <= lap /\ lap <= dry_max THEN "dry"
        ELSE IF wet_min <= lap /\ lap <= wet_max THEN "wet"
        ELSE "invalid"

classify_lap_exclusive(lap_time, dry_benchmark, wet_benchmark, tolerance) ==
    LET dry_min == dry_benchmark * (100 - tolerance)
        dry_max == dry_benchmark * (100 + tolerance)
        wet_min == wet_benchmark * (100 - tolerance)
        wet_max == wet_benchmark * (100 + tolerance)
        lap == lap_time * 100
    IN  IF dry_min < lap /\ lap < dry_max THEN "dry"
        ELSE IF wet_min < lap /\ lap < wet_max THEN "wet"
        ELSE IF dry_max < wet_min /\ dry_max < lap /\ lap < wet_min THEN "gap"
        ELSE "invalid"

classify_lap(lap_time, dry_benchmark, wet_benchmark, tolerance) ==
    LET dry_min == dry_benchmark * (100 - tolerance)
        dry_max == dry_benchmark * (100 + tolerance)
        wet_min == wet_benchmark * (100 - tolerance)
        wet_max == wet_benchmark * (100 + tolerance)
        lap == lap_time * 100
    IN  IF dry_min <= lap /\ lap <= dry_max THEN "dry"
        ELSE IF wet_min <= lap /\ lap <= wet_max THEN "wet"
        ELSE IF dry_max < wet_min /\ dry_max < lap /\ lap < wet_min THEN "gap"
        ELSE "invalid"

\* The laps of one condition, in input order.
RECURSIVE LapsOf(_, _, _, _, _)
LapsOf(lap_times, cond, dry_benchmark, wet_benchmark, tolerance) ==
    IF lap_times = << >> THEN << >>
    ELSE LET rest == LapsOf(Tail(lap_times), cond, dry_benchmark, wet_benchmark, tolerance)
         IN  IF classify_lap(Head(lap_times), dry_benchmark, wet_benchmark, tolerance) = cond
             THEN <<Head(lap_times)>> \o rest
             ELSE rest

RECURSIVE SeqMin(_)
SeqMin(s) ==
    IF Len(s) = 1 THEN s[1] ELSE Min2(s[1], SeqMin(Tail(s)))

NoLap == -1

\* (best_dry, best_wet, gap_laps): only the fastest lap of each condition of
\* one source is returned.
classify_laps(lap_times, dry_benchmark, wet_benchmark, tolerance) ==
    LET dry_laps == LapsOf(lap_times, "dry", dry_benchmark, wet_benchmark, tolerance)
        wet_laps == LapsOf(lap_times, "wet", dry_benchmark, wet_benchmark, tolerance)
        gap_laps == LapsOf(lap_times, "gap", dry_benchmark, wet_benchmark, tolerance)
    IN  [best_dry |-> IF dry_laps # << >> THEN SeqMin(dry_laps) ELSE NoLap,
         best_wet |-> IF wet_laps # << >> THEN SeqMin(wet_laps) ELSE NoLap,
         gap_laps |-> gap_laps]

\* ------------------------------------------------------------------------
\* File names (scan.py)
\* ------------------------------------------------------------------------
NameTok(v) == [k |-> "name", v |-> v]
OrdTok(n, suf) == [k |-> "ord", n |-> n, suf |-> suf]
LapTok(minutes, ms) == [k |-> "lap", min |-> minutes, ms |-> ms]
DateTok(ymd) == [k |-> "date", ymd |-> ymd, sep |-> "-"]

\* f"{secs:.3f}": the seconds rounded to the millisecond.
RoundMs(ticks) == (ticks + TicksPerMs \div 2) \div TicksPerMs

format_lap_time_filename(seconds) ==
    LapTok(seconds \div TicksPerMin, RoundMs(seconds % TicksPerMin))

rank_suffix(rank) ==
    CASE rank = 1 -> OrdTok(1, "st")
      [] rank = 2 -> OrdTok(2, "nd")
      [] rank = 3 -> OrdTok(3, "rd")
      [] OTHER -> OrdTok(rank, "th")

\* A track and a car are sequences of name tokens; the date is
\* [ymd, sep] with sep "." in a source name and "-" in a PB name.
generate_pb_filename(track, car, condition, rank, lap_time, date_str) ==
    [parts |-> track \o car \o
               << NameTok(condition), rank_suffix(rank),
                  format_lap_time_filename(lap_time), DateTok(date_str.ymd) >>,
     ext |-> "ld"]

RECURSIVE LeadingDigit(_)
LeadingDigit(n) == IF n < 10 THEN n ELSE LeadingDigit(n \div 10)

NotADigit == -1

\* int(tok[0]) of a token: the first character as a digit, NotADigit when it
\* is none (ValueError).  Name tokens of the model start with a letter.
FirstCharDigit(tok) ==
    CASE tok.k = "ord" -> LeadingDigit(tok.n)
      [] tok.k = "lap" -> LeadingDigit(tok.min)
      [] tok.k = "date" -> LeadingDigit(tok.ymd)
      [] OTHER -> NotADigit

IsCondTok(tok) == tok.k = "name" /\ tok.v \in {"dry", "wet"}

NoParse == [ok |-> FALSE]

parse_rank(rank_str) == FirstCharDigit(rank_str)

parse_pb_filename(filename) ==
    LET parts == filename.parts
        idxs == {i \in 1..Len(parts) : IsCondTok(parts[i])}
    IN  IF Len(parts) < 6 THEN NoParse
        ELSE IF idxs = {} THEN NoParse
        ELSE LET condition_idx == CHOOSE i \in idxs : \A j \in idxs : i <= j
             IN  IF condition_idx + 2 > Len(parts) THEN NoParse
                 ELSE LET rank_str == parts[condition_idx + 1]
                          lap_time_str == parts[condition_idx + 2]
                      IN  IF parse_rank(rank_str) = NotADigit THEN NoParse
                          ELSE IF lap_time_str.k # "lap" THEN NoParse
                          ELSE [ok |-> TRUE,
                                track |-> <<parts[1]>>,
                                car |-> SubSeq(parts, 2, condition_idx - 1),
                                condition |-> parts[condition_idx].v,
                                rank |-> parse_rank(rank_str),
                                lap_time |-> Sec(lap_time_str.min * SecPerMin)
                                             + Ms(lap_time_str.ms),
                                date |-> parts[Len(parts)]]

\* ------------------------------------------------------------------------
\* Bounds of the model
\* ------------------------------------------------------------------------
MaxSrc == 3
MaxTime == 2
PbBound == 2
MaxFaults == 1

\* ------------------------------------------------------------------------
\* The recordings that can appear in the root, and the configuration
\* ------------------------------------------------------------------------
Sources == 1..MaxSrc

Spa == <<NameTok("spa")>>
BrandsHatch == <<NameTok("brands"), NameTok("hatch")>>
Bmw == <<NameTok("bmw")>>
PorscheGt3 == <<NameTok("porsche"), NameTok("gt3")>>

\* ld_data.head.venue
SrcTrack(s) == IF s = 3 THEN BrandsHatch ELSE Spa

\* parse_original_filename: the car of the source name
SrcCar(s) == IF s = 3 THEN PorscheGt3 ELSE Bmw

SrcDate(s) == [ymd |-> 20240100 + s, sep |-> "."]

\* get_lap_times_from_ldx: the lap durations of the companion file
SrcLaps(s) ==
    CASE s = 1 -> << Sec(100) + Ms(123) + 4, Sec(100) + Ms(500), Sec(120), Sec(135) >>
      [] s = 2 -> << Sec(100) + Ms(600) + 6, Sec(135) >>
      [] s = 3 -> << Sec(119) + Ms(999) + 9, Sec(200) >>
      [] OTHER -> << Sec(101) + s, Sec(136) + s >>

get_car_category(car) == "gt3"

get_benchmark_times(track, category) ==
    IF track = BrandsHatch THEN [dry |-> Sec(115), wet |-> Sec(150)]
    ELSE [dry |-> Sec(100), wet |-> Sec(140)]

get_tolerance(category, condition) == 5

MaxPbCount == 10

\* ------------------------------------------------------------------------
\* State
\* ------------------------------------------------------------------------
VARIABLES
    files,      \* sources whose .ld file lies directly in the root
    ldxs,       \* sources whose .ldx companion lies directly in the root
    dirs,       \* timestamp -> set of file names, for each PBs_<timestamp>
    now,        \* the local clock, in seconds
    pb_count,   \* settings['pb_count']
    faults,     \* I/O failures met so far
    out,        \* what the last operation returned
    pure,       \* last application of a pure function (SpecPure only)
    menu        \* where the operator is in the menus of main.py (SpecMenu only)

vars == <<files, ldxs, dirs, now, pb_count, faults, out, pure, menu>>

\* ------------------------------------------------------------------------
\* Sequences
\* ------------------------------------------------------------------------
RECURSIVE SortedSeq(_)
SortedSeq(S) ==
    IF S = {} THEN << >>
    ELSE LET m == CHOOSE x \in S : \A y \in S : x <= y
         IN  <<m>> \o SortedSeq(S \ {m})

RECURSIVE Flatten(_)
Flatten(ss) == IF ss = << >> THEN << >> ELSE Head(ss) \o Flatten(Tail(ss))

Range(s) == {s[i] : i \in 1..Len(s)}

Prefix(s, n) == SubSeq(s, 1, Min2(n, Len(s)))

RECURSIVE InsertByLap_beforeequal(_, _)
InsertByLap_beforeequal(e, sorted) ==
    IF sorted = << >> THEN <<e>>
    ELSE IF e.lap_time <= Head(sorted).lap_time THEN <<e>> \o sorted
    ELSE <<Head(sorted)>> \o InsertByLap_beforeequal(e, Tail(sorted))

\* list.sort(key=lambda x: x[0]): stable, ascending lap time
RECURSIVE InsertByLap(_, _)
InsertByLap(e, sorted) ==
    IF sorted = << >> THEN <<e>>
    ELSE IF e.lap_time < Head(sorted).lap_time THEN <<e>> \o sorted
    ELSE <<Head(sorted)>> \o InsertByLap(e, Tail(sorted))

RECURSIVE SortByLapFrom(_, _)
SortByLapFrom(s, i) ==
    IF i = 0 THEN << >>
    ELSE InsertByLap(s[i], SortByLapFrom(s, i - 1))

\* Inserting s[i] after the equal elements of s[1..i-1] keeps input order.
SortByLap(s) == SortByLapFrom(s, Len(s))

\* ------------------------------------------------------------------------
\* scan_telemetry: source processing (scan.py 856-942)
\* ------------------------------------------------------------------------

\* source_dir.glob("*.ld"); a source id stands for its place in the listing
ld_files(fs) == SortedSeq(fs)

SrcBench(s) == get_benchmark_times(SrcTrack(s), get_car_category(SrcCar(s)))

SrcClass(s) ==
    classify_laps(SrcLaps(s), SrcBench(s).dry, SrcBench(s).wet,
                  get_tolerance(get_car_category(SrcCar(s)), "dry"))

SourceOutcome_uncounted(has_ldx, raises, lap_times) ==
    IF ~has_ldx THEN "uncounted"
    ELSE IF raises THEN "skipped"
    ELSE IF lap_times = << >> THEN "skipped"
    ELSE "processed"

\* one iteration of the loop over ld_files: a source is skipped without its
\* companion file, when its parsing raises and without lap times; every
\* other source is counted as processed
SourceOutcome(has_ldx, raises, lap_times) ==
    IF ~has_ldx THEN "skipped"
    ELSE IF raises THEN "skipped"
    ELSE IF lap_times = << >> THEN "skipped"
    ELSE "processed"

\* the counters after the loop over the sources srcs
SourceLoop(srcs) ==
    LET outcomes == Tup([i \in 1..Len(srcs) |->
                           SourceOutcome(srcs[i].has_ldx, srcs[i].raises,
                                         srcs[i].lap_times)])
    IN  [outcomes |-> outcomes,
         processed |-> Cardinality({i \in 1..Len(srcs) : outcomes[i] = "processed"}),
         skipped |-> Cardinality({i \in 1..Len(srcs) : outcomes[i] = "skipped"})]

IsProcessed(s, lx) == SourceOutcome(s \in lx, FALSE, SrcLaps(s)) = "processed"

\* what the loop meets for each file of the listing
SourceInputs(fs, lx) ==
    Tup([i \in 1..Len(ld_files(fs)) |->
           [has_ldx |-> ld_files(fs)[i] \in lx, raises |-> FALSE,
            lap_times |-> SrcLaps(ld_files(fs)[i])]])

\* processed and skipped after the loop
Counters(fs, lx) == SourceLoop(SourceInputs(fs, lx))

ProcessedSeq(fs, lx) == SelectSeq(ld_files(fs), LAMBDA s : IsProcessed(s, lx))

SrcKey(s) == [track |-> SrcTrack(s), car |-> SrcCar(s)]

\* all the laps of one condition of a source, instead of its best one
SrcCondLaps_all(s, cond) ==
    LET ls == LapsOf(SrcLaps(s), cond, SrcBench(s).dry, SrcBench(s).wet,
                     get_tolerance(get_car_category(SrcCar(s)), "dry"))
    IN  Tup([i \in 1..Len(ls) |-> [lap_time |-> ls[i], file_path |-> s, date |-> SrcDate(s)]])

\* what one source appends to track_car_data[key][cond]
SrcCondLaps(s, cond) ==
    LET c == SrcClass(s)
        e(t) == [lap_time |-> t, file_path |-> s, date |-> SrcDate(s)]
    IN  CASE cond = "dry" -> IF c.best_dry # NoLap /\ c.best_dry # 0 THEN <<e(c.best_dry)>> ELSE << >>
          [] cond = "wet" -> IF c.best_wet # NoLap /\ c.best_wet # 0 THEN <<e(c.best_wet)>> ELSE << >>
          [] cond = "gap" -> Tup([i \in 1..Len(c.gap_laps) |-> e(c.gap_laps[i])])

\* track_car_data[key][cond] after the loop over the sources
TrackCarData(psrcs, key, cond) ==
    Flatten(Tup([i \in 1..Len(psrcs) |->
                   IF SrcKey(psrcs[i]) = key THEN SrcCondLaps(psrcs[i], cond) ELSE << >>]))

HasData(s) ==
    \E cond \in {"dry", "wet", "gap"} : SrcCondLaps(s, cond) # << >>

\* the keys of track_car_data, in insertion order
RECURSIVE KeysFrom(_, _)
KeysFrom(psrcs, seen) ==
    IF psrcs = << >> THEN << >>
    ELSE LET s == Head(psrcs)
         IN  IF HasData(s) /\ SrcKey(s) \notin seen
             THEN <<SrcKey(s)>> \o KeysFrom(Tail(psrcs), seen \cup {SrcKey(s)})
             ELSE KeysFrom(Tail(psrcs), seen)

TrackCarKeys(psrcs) == KeysFrom(psrcs, {})

\* ------------------------------------------------------------------------
\* Previous snapshot (scan.py 558-599)
\* ------------------------------------------------------------------------
NoDir == 0

Timestamps == 1..MaxTime

ExistingDirs(d) == {t \in Timestamps : d[t].exists}

\* find_previous_pb_folders(...)[0] / get_undo_candidates(...)[0]:
\* the existing directory with the greatest timestamp
NewestDir(d) == CHOOSE t \in ExistingDirs(d) : \A u \in ExistingDirs(d) : u <= t

\* load_previous_pbs: the parsed *.ld names of a folder as (key, rank, time)
load_previous_pbs(contents) ==
    {[key |-> [track |-> p.track, car |-> p.car, condition |-> p.condition],
      rank |-> p.rank, lap_time |-> p.lap_time] :
        p \in {parse_pb_filename(f) : f \in {g \in contents : g.ext = "ld"}} \ {NoParse}}

NoPrev == [has |-> FALSE, t |-> 0]

\* the previous times the rank loop of scan.py 992-996 can find: the first
\* entry of that key whose rank equals the slot's; which of several equal
\* ranks comes first is the listing order of the folder.
PrevTimes(previous_pbs, track, car, condition, rank) ==
    LET key == [track |-> track, car |-> car, condition |-> condition]
        m == {e \in previous_pbs : e.key = key /\ e.rank = rank}
    IN  IF m = {} THEN {NoPrev} ELSE {[has |-> TRUE, t |-> e.lap_time] : e \in m}

\* ------------------------------------------------------------------------
\* scan_telemetry: ranking and comparison (scan.py 963-1049)
\* ------------------------------------------------------------------------

\* enumerate(laps[:pb_count], 1) for one (track, car, condition)
RankedSlots(laps, key, condition, n) ==
    LET top == Prefix(laps, n)
    IN  Tup([i \in 1..Len(top) |->
               [file_path |-> top[i].file_path,
                new_filename |-> generate_pb_filename(key.track, key.car, condition, i,
                                                      top[i].lap_time, top[i].date),
                track |-> key.track, car |-> key.car, condition |-> condition,
                rank |-> i, lap_time |-> top[i].lap_time]])

CondSlots_uncapped(psrcs, key, condition, n) ==
    RankedSlots(SortByLap(TrackCarData(psrcs, key, condition)), key, condition, n + 1)

CondSlots(psrcs, key, condition, n) ==
    RankedSlots(SortByLap(TrackCarData(psrcs, key, condition)), key, condition, n)

\* files_to_pb: per key, the dry slots by rank, then the wet slots by rank
FilesToPb(psrcs, n) ==
    LET keys == TrackCarKeys(psrcs)
    IN  Flatten(Tup([i \in 1..Len(keys) |->
                       CondSlots(psrcs, keys[i], "dry", n) \o CondSlots(psrcs, keys[i], "wet", n)]))

NoDelta == [has |-> FALSE, v |-> 0]

Comparison_swapped(slot, prev) ==
    [rank |-> slot.rank, lap_time |-> slot.lap_time, previous_time |-> prev,
     delta |-> IF prev.has THEN [has |-> TRUE, v |-> prev.t - slot.lap_time] ELSE NoDelta,
     is_new_pb |-> (~prev.has) \/ slot.lap_time <= prev.t]

\* the entry of comparison_data[...]['current'] of one slot
Comparison(slot, prev) ==
    [rank |-> slot.rank, lap_time |-> slot.lap_time, previous_time |-> prev,
     delta |-> IF prev.has THEN [has |-> TRUE, v |-> slot.lap_time - prev.t] ELSE NoDelta,
     is_new_pb |-> (~prev.has) \/ slot.lap_time < prev.t]

\* every way the previous times of the slots can be read from the folder
RECURSIVE PrevChoices(_, _)
PrevChoices(slots, previous_pbs) ==
    IF slots = << >> THEN {<< >>}
    ELSE LET sl == Head(slots)
         IN  {<<p>> \o rest :
                p \in PrevTimes(previous_pbs, sl.track, sl.car, sl.condition, sl.rank),
                rest \in PrevChoices(Tail(slots), previous_pbs)}

\* report_rows: per key the PB rows, then the GAP_WARNING rows
ReportRows(psrcs, n) ==
    LET keys == TrackCarKeys(psrcs)
        pb(sl) == [action |-> "PB", track |-> sl.track, car |-> sl.car,
                   lap_time |-> sl.lap_time, original_file |-> sl.file_path]
        gw(key, g) == [action |-> "GAP_WARNING", track |-> key.track, car |-> key.car,
                       lap_time |-> g.lap_time, original_file |-> g.file_path]
        rowsOf(key) ==
            LET sls == CondSlots(psrcs, key, "dry", n) \o CondSlots(psrcs, key, "wet", n)
                gs == TrackCarData(psrcs, key, "gap")
            IN  [i \in 1..Len(sls) |-> pb(sls[i])] \o [i \in 1..Len(gs) |-> gw(key, gs[i])]
    IN  Flatten(Tup([i \in 1..Len(keys) |-> rowsOf(keys[i])]))

\* ------------------------------------------------------------------------
\* scan_telemetry: copy phase (scan.py 1058-1100)
\* ------------------------------------------------------------------------
IndexOfSource(copied, src) ==
    IF \E i \in 1..Len(copied) : copied[i].source = src
    THEN CHOOSE i \in 1..Len(copied) : copied[i].source = src
    ELSE 0

NewCopy(slot) ==
    [source |-> slot.file_path, primary_filename |-> slot.new_filename,
     primary_condition |-> slot.condition, primary_rank |-> slot.rank,
     additional_pbs |-> << >>]

Extra(slot) ==
    [condition |-> slot.condition, rank |-> slot.rank, filename |-> slot.new_filename]

CopyStep_nodedup(copied, slot) == Append(copied, NewCopy(slot))

\* one iteration of the loop over files_to_pb
CopyStep(copied, slot) ==
    LET i == IndexOfSource(copied, slot.file_path)
    IN  IF i # 0
        THEN [copied EXCEPT ![i].additional_pbs = Append(@, Extra(slot))]
        ELSE Append(copied, NewCopy(slot))

\* copied_files after the first k slots
RECURSIVE CopiedFiles(_, _)
CopiedFiles(slots, k) ==
    IF k = 0 THEN << >> ELSE CopyStep(CopiedFiles(slots, k - 1), slots[k])

AsLdx(filename) == [filename EXCEPT !.ext = "ldx"]

OperationLog == [parts |-> <<NameTok("operation"), NameTok("log")>>, ext |-> "txt"]

\* the files written for the entries of copied_files
CopiedItems(copied) ==
    {copied[i].primary_filename : i \in 1..Len(copied)}
      \cup {AsLdx(copied[i].primary_filename) : i \in 1..Len(copied)}

\* ------------------------------------------------------------------------
\* Operations
\* ------------------------------------------------------------------------
Idle == [op |-> "idle"]

NoPure == [fn |-> "none"]

\* main_menu is waiting for a key
AtMain == [at |-> "main"]

EmptyDir == [exists |-> FALSE, items |-> {}]

Init ==
    /\ files = {}
    /\ ldxs = {}
    /\ dirs = [t \in Timestamps |-> EmptyDir]
    /\ now = 1
    /\ pb_count \in 1..Min2(PbBound, MaxPbCount)
    /\ faults = 0
    /\ out = Idle
    /\ pure = NoPure
    /\ menu = AtMain

\* the simulator writes a recording and its companion into the root
Record(s) ==
    /\ s \notin files
    /\ s \notin ldxs
    /\ files' = files \cup {s}
    /\ ldxs' = ldxs \cup {s}
    /\ out' = Idle
    /\ UNCHANGED <<dirs, now, pb_count, faults, pure, menu>>

\* datetime.now() has second resolution
Tick ==
    /\ now < MaxTime
    /\ now' = now + 1
    /\ out' = Idle
    /\ UNCHANGED <<files, ldxs, dirs, pb_count, faults, pure, menu>>

ScanOut(dry_run, ret, processed, skipped, slots, comparison, rows, copied, files_copied, prev_dir) ==
    [op |-> "scan", dry_run |-> dry_run, ret |-> ret,
     processed |-> processed, skipped |-> skipped,
     files_to_pb |-> slots, comparison |-> comparison, report_rows |-> rows,
     copied_files |-> copied, pbs |-> Len(slots), files_copied |-> files_copied,
     pbs_dir |-> now, prev_dir |-> prev_dir]

\* files_copied = len(copied_files) if not dry_run else total_pbs
FilesCopied(dry_run, slots, copied) == IF dry_run THEN Len(slots) ELSE Len(copied)

\* What a scan derives from the processed sources and the PB count alone;
\* tabulated once for every set of processed sources.
ScanPlan(psrcs, n) ==
    LET slots == FilesToPb(psrcs, n)
    IN  [files_to_pb |-> slots,
         report_rows |-> ReportRows(psrcs, n),
         copied_upto |-> Table([k \in 0..Len(slots) |-> CopiedFiles(slots, k)])]

ScanPlanTable ==
    Table([P \in SUBSET Sources |->
             Table([n \in 1..Min2(PbBound, MaxPbCount) |-> ScanPlan(SortedSeq(P), n)])])

\* previous_pb_folders[0], NoDir when there is no previous folder
PrevDir(d) == IF ExistingDirs(d) # {} THEN NewestDir(d) ELSE NoDir

\* previous_pbs: empty without a previous folder
PreviousPbs(d) ==
    IF PrevDir(d) # NoDir THEN load_previous_pbs(d[PrevDir(d)].items) ELSE {}

PlanFor(fs, lx, n) == ScanPlanTable[Range(ProcessedSeq(fs, lx))][n]

AfterCopy2_move(fs, copied) ==
    fs \ {copied[i].source : i \in 1..Len(copied)}

\* shutil.copy2(file_path, dest_ld) and shutil.copy2(ldx_file, dest_ldx)
\* read the source and write into pbs_dir: the sources fs stay in the root
AfterCopy2(fs, copied) == fs

\* the comparison with the previous times prevs, then the copy phase and
\* the result
ScanFinish(dry_run, processed, skipped, plan, prevs, prev_dir) ==
    LET slots == plan.files_to_pb
        rows == plan.report_rows
        comparison == Tup([i \in 1..Len(slots) |-> Comparison(slots[i], prevs[i])])
    IN  \/ /\ dry_run
           /\ out' = ScanOut(TRUE, "result", processed, skipped, slots, comparison,
                             rows, << >>, FilesCopied(TRUE, slots, << >>), prev_dir)
           /\ UNCHANGED <<files, ldxs, dirs, now, pb_count, faults, pure>>
        \/ /\ ~dry_run
           /\ LET copied == plan.copied_upto[Len(slots)]
              IN  /\ dirs' = [dirs EXCEPT ![now] =
                                [exists |-> TRUE,
                                 items |-> @.items \cup CopiedItems(copied)
                                             \cup {OperationLog}]]
                  /\ out' = ScanOut(FALSE, "result", processed, skipped, slots,
                                    comparison, rows, copied,
                                    FilesCopied(FALSE, slots, copied), prev_dir)
                  /\ files' = AfterCopy2(files, copied)
                  /\ ldxs' = AfterCopy2(ldxs, copied)
           /\ UNCHANGED <<now, pb_count, faults, pure>>
        \/ \* shutil.copy2 raises on the first copy of slot k
           /\ ~dry_run
           /\ faults < MaxFaults
           /\ \E k \in 1..Len(slots) :
                 /\ IndexOfSource(plan.copied_upto[k - 1], slots[k].file_path) = 0
                 /\ dirs' = [dirs EXCEPT ![now] =
                               [exists |-> TRUE,
                                items |-> @.items
                                            \cup CopiedItems(plan.copied_upto[k - 1])]]
                 /\ out' = ScanOut(FALSE, "raised", processed, skipped, slots,
                                   comparison, << >>, plan.copied_upto[k - 1],
                                   0, prev_dir)
                 /\ files' = AfterCopy2(files, plan.copied_upto[k - 1])
                 /\ ldxs' = AfterCopy2(ldxs, plan.copied_upto[k - 1])
           /\ faults' = faults + 1
           /\ UNCHANGED <<now, pb_count, pure>>

scan_telemetry(dry_run) ==
    IF files = {}
    THEN /\ out' = ScanOut(dry_run, "none", 0, 0, << >>, << >>, << >>, << >>, 0, NoDir)
         /\ UNCHANGED <<files, ldxs, dirs, now, pb_count, faults, pure>>
    ELSE \E prevs \in PrevChoices(PlanFor(files, ldxs, pb_count).files_to_pb,
                                  PreviousPbs(dirs)) :
            ScanFinish(dry_run,
                       Counters(files, ldxs).processed,
                       Counters(files, ldxs).skipped,
                       PlanFor(files, ldxs, pb_count), prevs, PrevDir(dirs))

Scan ==
    /\ \E dry_run \in BOOLEAN : scan_telemetry(dry_run)
    /\ UNCHANGED menu

\* ------------------------------------------------------------------------
\* Undo (scan.py 606-664)
\* ------------------------------------------------------------------------

\* folder.iterdir(): the items in the order of the directory listing
RECURSIVE ListDir(_)
ListDir(S) ==
    IF S = {} THEN << >>
    ELSE LET x == CHOOSE y \in S : TRUE
         IN  <<x>> \o ListDir(S \ {x})

RECURSIVE NewestFirst_ascending(_)
NewestFirst_ascending(T) ==
    IF T = {} THEN << >>
    ELSE LET m == CHOOSE t \in T : \A u \in T : t <= u
         IN  <<m>> \o NewestFirst_ascending(T \ {m})

\* (folder, timestamp, file_count), newest first
RECURSIVE NewestFirst(_)
NewestFirst(T) ==
    IF T = {} THEN << >>
    ELSE LET m == CHOOSE t \in T : \A u \in T : u <= t
         IN  <<m>> \o NewestFirst(T \ {m})

get_undo_candidates(d) ==
    LET ts == NewestFirst(ExistingDirs(d))
    IN  Tup([i \in 1..Len(ts) |->
               [folder |-> ts[i],
                file_count |-> Cardinality({f \in d[ts[i]].items : f.ext = "ld"})]])

UndoOut(folder, target, file_count, error) ==
    [op |-> "undo", folder |-> folder, target |-> target,
     file_count |-> file_count, error |-> error]

UndoTarget_oldest(d) ==
    CHOOSE t \in ExistingDirs(d) : \A u \in ExistingDirs(d) : t <= u

\* candidates[0]
UndoTarget(d) == get_undo_candidates(d)[1].folder

\* where the deletion can stop: at the first item, at the second, at rmdir
UndoFailPoints(listing) == {k \in {1, 2, Len(listing) + 1} : k <= Len(listing) + 1}

undo_last_scan ==
    LET candidates == get_undo_candidates(dirs)
    IN  IF candidates = << >>
        THEN /\ out' = UndoOut(NoDir, NoDir, 0, FALSE)
             /\ UNCHANGED <<files, ldxs, dirs, now, pb_count, faults, pure>>
        ELSE LET folder == UndoTarget(dirs)
                 listing == ListDir(dirs[folder].items)
             IN  \/ /\ dirs' = [dirs EXCEPT ![folder] = EmptyDir]
                    /\ out' = UndoOut(folder, folder, candidates[1].file_count, FALSE)
                    /\ UNCHANGED <<files, ldxs, now, pb_count, faults, pure>>
                 \/ \* item k cannot be unlinked (k = Len+1: rmdir fails)
                    /\ faults < MaxFaults
                    /\ \E k \in UndoFailPoints(listing) :
                          dirs' = [dirs EXCEPT ![folder] =
                                     [exists |-> TRUE,
                                      items |-> {listing[i] : i \in k..Len(listing)}]]
                    /\ out' = UndoOut(NoDir, folder, candidates[1].file_count, TRUE)
                    /\ faults' = faults + 1
                    /\ UNCHANGED <<files, ldxs, now, pb_count, pure>>

\* ------------------------------------------------------------------------
\* Cleanup (scan.py 671-735)
\* ------------------------------------------------------------------------
Loose(s, ext) == [src |-> s, ext |-> ext]

\* every .ld and .ldx file of the tree, with the place it lies in
AllLdFiles(fs, lx, d) ==
    {[dir |-> NoDir, file |-> Loose(s, "ld")] : s \in fs}
      \cup {[dir |-> NoDir, file |-> Loose(s, "ldx")] : s \in lx}
      \cup UNION {{[dir |-> t, file |-> f] : f \in d[t].items} : t \in ExistingDirs(d)}

get_cleanup_candidates_recursive(fs, lx, d) ==
    {e.file : e \in {x \in AllLdFiles(fs, lx, d) :
                       x.file.ext \in {"ld", "ldx"}}}

\* source_dir.glob('*.ld') and glob('*.ldx') match the direct children only
get_cleanup_candidates(fs, lx, d) ==
    {e.file : e \in {x \in AllLdFiles(fs, lx, d) :
                       x.file.ext \in {"ld", "ldx"} /\ x.dir = NoDir}}

CleanupOut(candidates, failed) ==
    [op |-> "cleanup", candidates |-> candidates,
     success_count |-> Cardinality(candidates \ failed),
     error_count |-> Cardinality(failed), errors |-> failed]

\* what is left of the tree when the unlink of each candidate in `failed`
\* raises and every other candidate is deleted
cleanup_old_files ==
    LET candidates == get_cleanup_candidates(files, ldxs, dirs)
    IN  \E failed \in SUBSET candidates :
          /\ Cardinality(failed) <= MaxFaults - faults
          /\ files' = {s \in files : Loose(s, "ld") \notin candidates \ failed}
          /\ ldxs' = {s \in ldxs : Loose(s, "ldx") \notin candidates \ failed}
          /\ dirs' = [t \in Timestamps |->
                        [dirs[t] EXCEPT !.items = @ \ (candidates \ failed)]]
          /\ faults' = faults + Cardinality(failed)
          /\ out' = CleanupOut(candidates, failed)
          /\ UNCHANGED <<now, pb_count, pure>>

Undo == undo_last_scan /\ UNCHANGED menu

Cleanup == cleanup_old_files /\ UNCHANGED menu

Next ==
    \/ \E s \in Sources : Record(s)
    \/ Tick
    \/ Scan
    \/ Undo
    \/ Cleanup

Spec == Init /\ [][Next]_vars

\* ------------------------------------------------------------------------
\* The menus of main.py: scan, cleanup and undo with their confirmations
\* ------------------------------------------------------------------------
MenuKeys == {"y", "Y", "n", "ENTER"}

\* key.lower()
LowerKey(key) ==
    CASE key = "Y" -> "y"
      [] key = "ENTER" -> "enter"
      [] OTHER -> key

\* if key.lower() != 'y': cancelled
KeyAccepted(key) == LowerKey(key) = "y"

TypedTexts == {"delete", " DELETE ", "yes"}

\* input("  > ").strip().lower()
StripLower(text) ==
    CASE text = " DELETE " -> "delete"
      [] OTHER -> text

TypedAccepted_any(confirmation) == confirmation \in {"delete", "yes"}

\* if confirmation != 'delete': cancelled
TypedAccepted(confirmation) == confirmation = "delete"

\* run_scan: the scan of either kind, started from the main menu; an
\* exception of the scan is caught and printed
run_scan ==
    /\ menu = AtMain
    /\ \E dry_run \in BOOLEAN : scan_telemetry(dry_run)
    /\ UNCHANGED menu

\* cleanup_old_files_menu, step 2: the candidates are listed
CleanupMenuPreview ==
    /\ menu = AtMain
    /\ LET candidates == get_cleanup_candidates(files, ldxs, dirs)
       IN  menu' = IF candidates = {} THEN AtMain
                   ELSE [at |-> "cleanup_key", preview |-> candidates]
    /\ out' = Idle
    /\ UNCHANGED <<files, ldxs, dirs, now, pb_count, faults, pure>>

\* step 3: Continue? (y/n)
CleanupMenuKey ==
    /\ menu.at = "cleanup_key"
    /\ \E key \in MenuKeys :
          menu' = IF ~KeyAccepted(key) THEN AtMain
                  ELSE [at |-> "cleanup_typed", preview |-> menu.preview, key |-> LowerKey(key)]
    /\ UNCHANGED <<files, ldxs, dirs, now, pb_count, faults, out, pure>>

\* step 4: the operator types a line
CleanupMenuTyped ==
    /\ menu.at = "cleanup_typed"
    /\ \E text \in TypedTexts :
          menu' = [at |-> "cleanup_check", preview |-> menu.preview, key |-> menu.key,
                   confirmation |-> StripLower(text)]
    /\ UNCHANGED <<files, ldxs, dirs, now, pb_count, faults, out, pure>>

\* the line is compared with 'delete'; then cleanup_old_files(motec_path)
CleanupMenuExecute ==
    /\ menu.at = "cleanup_check"
    /\ menu' = AtMain
    /\ IF ~TypedAccepted(menu.confirmation)
       THEN UNCHANGED <<files, ldxs, dirs, now, pb_count, faults, out, pure>>
       ELSE cleanup_old_files

\* undo_scan: the PB folders are listed, the most recent one is shown
UndoMenuPreview ==
    /\ menu = AtMain
    /\ LET candidates == get_undo_candidates(dirs)
       IN  menu' = IF candidates = << >> THEN AtMain
                   ELSE [at |-> "undo_key", preview |-> candidates[1].folder]
    /\ out' = Idle
    /\ UNCHANGED <<files, ldxs, dirs, now, pb_count, faults, pure>>

UndoMenuKey ==
    /\ menu.at = "undo_key"
    /\ \E key \in MenuKeys :
          menu' = IF ~KeyAccepted(key) THEN AtMain
                  ELSE [at |-> "undo_typed", preview |-> menu.preview, key |-> LowerKey(key)]
    /\ UNCHANGED <<files, ldxs, dirs, now, pb_count, faults, out, pure>>

UndoMenuTyped ==
    /\ menu.at = "undo_typed"
    /\ \E text \in TypedTexts :
          menu' = [at |-> "undo_check", preview |-> menu.preview, key |-> menu.key,
                   confirmation |-> StripLower(text)]
    /\ UNCHANGED <<files, ldxs, dirs, now, pb_count, faults, out, pure>>

UndoMenuExecute ==
    /\ menu.at = "undo_check"
    /\ menu' = AtMain
    /\ IF ~TypedAccepted(menu.confirmation)
       THEN UNCHANGED <<files, ldxs, dirs, now, pb_count, faults, out, pure>>
       ELSE undo_last_scan

\* the simulator keeps recording and the clock keeps running while a menu
\* waits for the operator
NextMenu ==
    \/ \E s \in Sources : Record(s)
    \/ Tick
    \/ run_scan
    \/ CleanupMenuPreview
    \/ CleanupMenuKey
    \/ CleanupMenuTyped
    \/ CleanupMenuExecute
    \/ UndoMenuPreview
    \/ UndoMenuKey
    \/ UndoMenuTyped
    \/ UndoMenuExecute

SpecMenu == Init /\ [][NextMenu]_vars

\* ------------------------------------------------------------------------
\* The pure functions, applied to inputs drawn from bounded sets
\* ------------------------------------------------------------------------
BenchTimes == {Sec(100), Sec(104), Sec(110), Sec(125), Sec(140)}

Tolerances == {1, 5, 10, 20, 50, 99}

\* the benchmarks, the four range bounds and their neighbours, and the
\* middle between the benchmarks
ProbeLaps(dry, wet, tol) ==
    LET bounds == {(dry \div 100) * (100 - tol), (dry \div 100) * (100 + tol),
                   (wet \div 100) * (100 - tol), (wet \div 100) * (100 + tol)}
    IN  {dry, wet, (dry + wet) \div 2}
          \cup bounds \cup {b - 1 : b \in bounds} \cup {b + 1 : b \in bounds}

Tracks == {Spa, BrandsHatch}

Cars == {Bmw, PorscheGt3}

Conditions == {"dry", "wet"}

ProbeTimes == {Sec(59) + Ms(999) + 6, Sec(100) + Ms(123) + 4, Sec(119) + Ms(999) + 9,
               Sec(135)}

ProbeDates == {[ymd |-> 20240105, sep |-> "."], [ymd |-> 20241231, sep |-> "."]}

InitPure ==
    /\ files = {}
    /\ ldxs = {}
    /\ dirs = [t \in Timestamps |-> EmptyDir]
    /\ now = 1
    /\ pb_count = 1
    /\ faults = 0
    /\ out = Idle
    /\ pure = NoPure
    /\ menu = AtMain

Classify ==
    \E dry \in BenchTimes, wet \in BenchTimes, tol \in Tolerances :
      \E lap \in ProbeLaps(dry, wet, tol) :
        /\ pure = NoPure
        /\ pure' = [fn |-> "classify_lap", lap_time |-> lap, dry |-> dry, wet |-> wet,
                    tol |-> tol, result |-> classify_lap(lap, dry, wet, tol)]
        /\ UNCHANGED <<files, ldxs, dirs, now, pb_count, faults, out, menu>>

RoundTrip ==
    \E track \in Tracks, car \in Cars, condition \in Conditions, rank \in 1..MaxPbCount,
       lap \in ProbeTimes, date \in ProbeDates :
        /\ pure = NoPure
        /\ pure' = [fn |-> "pb_filename", track |-> track, car |-> car,
                    condition |-> condition, rank |-> rank, lap_time |-> lap, date |-> date,
                    parsed |-> parse_pb_filename(
                                 generate_pb_filename(track, car, condition, rank, lap, date))]
        /\ UNCHANGED <<files, ldxs, dirs, now, pb_count, faults, out, menu>>

\* the companion files met by the loop: without laps, with laps that are all
\* invalid, with a gap lap only, with a dry lap, with a dry and a wet lap
ProbeLapLists ==
    {<< >>, <<Sec(30), Sec(300)>>, <<Sec(120)>>, <<Sec(100), Sec(30)>>,
     <<Sec(135), Sec(101)>>}

ProbeSources ==
    [has_ldx : BOOLEAN, raises : BOOLEAN, lap_times : ProbeLapLists]

MaxProbeSources == 2

ProcessSources ==
    \E n \in 1..MaxProbeSources :
      \E srcs \in [1..n -> ProbeSources] :
        /\ pure = NoPure
        /\ pure' = [fn |-> "source_loop", sources |-> srcs,
                    dry |-> Sec(100), wet |-> Sec(140), tol |-> 5,
                    result |-> SourceLoop(srcs)]
        /\ UNCHANGED <<files, ldxs, dirs, now, pb_count, faults, out, menu>>

\* ------------------------------------------------------------------------
\* Tolerance helpers of the configuration editor (config_editor.py 153-218)
\* A tolerance is the exact fraction num/den, den > 0; a percentage p is
\* p/100.
\* ------------------------------------------------------------------------
Frac(n, d) == [num |-> n, den |-> d]
Pct(p) == Frac(p, 100)

FracLess(a, b) == a.num * b.den < b.num * a.den
FracLeq(a, b) == a.num * b.den <= b.num * a.den

\* None
NoTol == [none |-> TRUE]

\* config_editor.check_threshold_overlap; dry_max and wet_min are kept
\* multiplied by tol.den
editor_check_threshold_overlap(dry_time, wet_time, tol) ==
    LET dry_max == dry_time * (tol.den + tol.num)
        wet_min == wet_time * (tol.den - tol.num)
    IN  [overlaps |-> wet_min <= dry_max, dry_max |-> dry_max, wet_min |-> wet_min]

\* what check_threshold_overlap can report: dry_max and wet_min are two
\* floating-point products, each rounded on its own, so when they are equal
\* as real numbers 'wet_min <= dry_max' can come out either way (dry 110,
\* wet 140, tolerance 0.12 reports overlap; dry 60, wet 80, tolerance 1/7
\* gives 68.57142857142857 and 68.57142857142858 and reports none)
OverlapReports(dry_time, wet_time, tol) ==
    LET r == editor_check_threshold_overlap(dry_time, wet_time, tol)
    IN  IF r.wet_min = r.dry_max THEN BOOLEAN ELSE {r.overlaps}

calculate_max_safe_tolerance(dry_time, wet_time) ==
    IF dry_time >= wet_time THEN NoTol
    ELSE Frac(wet_time - dry_time, wet_time + dry_time)

\* round(x) of Python 3 for x = n/d >= 0: to the nearest integer, a tie to
\* the even one
RoundHalfEven(n, d) ==
    LET q == n \div d
        r == n % d
    IN  IF 2 * r < d THEN q
        ELSE IF 2 * r > d THEN q + 1
        ELSE IF q % 2 = 0 THEN q ELSE q + 1

MinRecommendedPct == 5
MaxRecommendedPct == 30
DefaultMarginPct == 2

recommend_tolerance_nofloor(dry_time, wet_time, margin) ==
    LET max_tol == calculate_max_safe_tolerance(dry_time, wet_time)
    IN  IF max_tol = NoTol THEN NoTol
        ELSE LET recommended == Frac(100 * max_tol.num - margin * max_tol.den,
                                     100 * max_tol.den)
             IN  IF recommended.num < 0 THEN Pct(0)
                 ELSE IF FracLess(Pct(MaxRecommendedPct), recommended)
                      THEN Pct(MaxRecommendedPct)
                 ELSE Pct(RoundHalfEven(100 * recommended.num, recommended.den))

recommend_tolerance_addmargin(dry_time, wet_time, margin) ==
    LET max_tol == calculate_max_safe_tolerance(dry_time, wet_time)
    IN  IF max_tol = NoTol THEN NoTol
        ELSE LET recommended == Frac(100 * max_tol.num + margin * max_tol.den,
                                     100 * max_tol.den)
             IN  IF FracLess(recommended, Pct(MinRecommendedPct))
                 THEN Pct(MinRecommendedPct)
                 ELSE IF FracLess(Pct(MaxRecommendedPct), recommended)
                      THEN Pct(MaxRecommendedPct)
                 ELSE Pct(RoundHalfEven(100 * recommended.num, recommended.den))

\* margin in percent; recommended = max_tol - margin
recommend_tolerance(dry_time, wet_time, margin) ==
    LET max_tol == calculate_max_safe_tolerance(dry_time, wet_time)
    IN  IF max_tol = NoTol THEN NoTol
        ELSE LET recommended == Frac(100 * max_tol.num - margin * max_tol.den,
                                     100 * max_tol.den)
             IN  IF FracLess(recommended, Pct(MinRecommendedPct))
                 THEN Pct(MinRecommendedPct)
                 ELSE IF FracLess(Pct(MaxRecommendedPct), recommended)
                      THEN Pct(MaxRecommendedPct)
                 ELSE Pct(RoundHalfEven(100 * recommended.num, recommended.den))

\* benchmark times typed into the editor, in seconds and in either order
EditorTimes == {60, 70, 80, 90, 100, 104, 110, 140, 250}

\* whole percentages, and the maximum safe tolerance with its two
\* neighbours one part in a thousand away
ProbeTols(dry, wet) ==
    LET max_tol == calculate_max_safe_tolerance(dry, wet)
    IN  {Pct(p) : p \in Tolerances}
          \cup (IF max_tol = NoTol THEN {}
                ELSE {max_tol,
                      Frac(1000 * max_tol.num - max_tol.den, 1000 * max_tol.den),
                      Frac(1000 * max_tol.num + max_tol.den, 1000 * max_tol.den)})

MaxSafeTolerance ==
    \E dry \in EditorTimes, wet \in EditorTimes :
      \E tol \in ProbeTols(dry, wet) :
       \E overlaps \in OverlapReports(dry, wet, tol) :
        /\ pure = NoPure
        /\ pure' = [fn |-> "calculate_max_safe_tolerance", dry |-> dry, wet |-> wet,
                    tol |-> tol,
                    max_tol |-> calculate_max_safe_tolerance(dry, wet),
                    overlaps |-> overlaps]
        /\ UNCHANGED <<files, ldxs, dirs, now, pb_count, faults, out, menu>>

Recommend ==
    \E dry \in EditorTimes, wet \in EditorTimes :
      LET rec == recommend_tolerance(dry, wet, DefaultMarginPct)
      IN  \E overlaps \in (IF rec = NoTol THEN {FALSE}
                            ELSE OverlapReports(dry, wet, rec)) :
            /\ pure = NoPure
            /\ pure' = [fn |-> "recommend_tolerance", dry |-> dry, wet |-> wet,
                        max_tol |-> calculate_max_safe_tolerance(dry, wet),
                        result |-> rec, overlaps |-> overlaps]
            /\ UNCHANGED <<files, ldxs, dirs, now, pb_count, faults, out, menu>>

\* ---- tolerance a category resolves to, in the scanner and in the editor ----

\* fallback literals, in percent
SettingsDefaultPct == 5
EditorDefaultPct == 20

\* a '_tolerance' key of a category file, or 'default_tolerance' of settings
NoKey == [has |-> FALSE]
Key(p) == [has |-> TRUE, pct |-> p]

get_default_tolerance(settings) ==
    IF settings.has THEN settings.pct ELSE SettingsDefaultPct

\* get_tolerance of the scanner, with the files it reads as parameters
scanner_tolerance(config, settings) ==
    IF config.has THEN config.pct ELSE get_default_tolerance(settings)

\* the tolerance edit_category_benchmarks shows and checks with
editor_tolerance(dry_config) ==
    IF dry_config.has THEN dry_config.pct ELSE EditorDefaultPct

\* the editor accepts a tolerance between 5% and 50%
ToleranceKeys == {NoKey, Key(5), Key(12), Key(20)}
SettingsKeys == {NoKey, Key(5), Key(20)}

\* one (track, category) with both benchmarks set, as the editor lists it
\* and as the scanner checks it; the two run the same floating-point
\* comparison, so with one tolerance they report the same
OverlapStatus ==
    \E dry \in EditorTimes, wet \in EditorTimes,
       config \in ToleranceKeys, settings \in SettingsKeys :
      LET etol == editor_tolerance(config)
          stol == scanner_tolerance(config, settings)
      IN  \E shown \in OverlapReports(dry, wet, Pct(etol)) :
          \E detected \in (IF stol = etol THEN {shown}
                           ELSE OverlapReports(dry, wet, Pct(stol))) :
            /\ pure = NoPure
            /\ pure' = [fn |-> "overlap_status", dry |-> dry, wet |-> wet,
                        config |-> config, settings |-> settings,
                        editor_tol |-> etol, scanner_tol |-> stol,
                        shown |-> shown, detected |-> detected]
            /\ UNCHANGED <<files, ldxs, dirs, now, pb_count, faults, out, menu>>

\* the result is read and dropped before the next application
Forget ==
    /\ pure # NoPure
    /\ pure' = NoPure
    /\ UNCHANGED <<files, ldxs, dirs, now, pb_count, faults, out, menu>>

NextPure ==
    \/ Classify
    \/ RoundTrip
    \/ ProcessSources
    \/ MaxSafeTolerance
    \/ Recommend
    \/ OverlapStatus
    \/ Forget

SpecPure == InitPure /\ [][NextPure]_vars

\* ------------------------------------------------------------------------
\* Properties
\* ------------------------------------------------------------------------
Classified == pure.fn = "classify_lap"

\* the wet benchmark lies inside the dry range [dry*(1-tol), dry*(1+tol)]
WetInsideDryRange ==
    /\ pure.dry * (100 - pure.tol) <= pure.wet * 100
    /\ pure.wet * 100 <= pure.dry * (100 + pure.tol)

\* C1, as stated: for every benchmark pair and tolerance, the dry benchmark
\* classifies as dry and the wet benchmark classifies as wet.
C1_SelfClassifies ==
    Classified =>
        /\ pure.lap_time = pure.dry => pure.result = "dry"
        /\ pure.lap_time = pure.wet => pure.result = "wet"

\* C1, amended: the dry benchmark always classifies as dry; the wet benchmark
\* classifies as wet unless it lies inside the dry range, and then as dry
\* (the dry range is checked first).
C1_DryFirst ==
    Classified =>
        /\ pure.lap_time = pure.dry => pure.result = "dry"
        /\ pure.lap_time = pure.wet =>
               pure.result = (IF WetInsideDryRange THEN "dry" ELSE "wet")

\* C1: a wet benchmark, different from the dry one, that was classified dry.
C1_Witness ==
    /\ Classified
    /\ pure.lap_time = pure.wet
    /\ pure.wet # pure.dry
    /\ pure.result = "dry"

\* A scan has returned its result and nothing has happened since.
ScanDone == out.op = "scan" /\ out.ret = "result"

Processed == {s \in files : IsProcessed(s, ldxs)}

Keys == {SrcKey(s) : s \in Sources}

\* the slots of one (track, car, condition) group, by rank
SlotsOf(key, cond) ==
    SelectSeq(out.files_to_pb,
              LAMBDA sl : sl.track = key.track /\ sl.car = key.car /\ sl.condition = cond)

\* the laps (source, position) of a condition recorded for a (track, car)
CondLaps(key, cond) ==
    {<<s, i>> : s \in {x \in Processed : SrcKey(x) = key}, i \in 1..4} \cap
    {l \in Sources \X (1..4) :
        /\ l[2] <= Len(SrcLaps(l[1]))
        /\ classify_lap(SrcLaps(l[1])[l[2]], SrcBench(l[1]).dry, SrcBench(l[1]).wet,
                        get_tolerance(get_car_category(SrcCar(l[1])), "dry")) = cond}

LapAt(l) == SrcLaps(l[1])[l[2]]

\* of the laps of a condition, each source's fastest
BestCondLaps(key, cond) ==
    {l \in CondLaps(key, cond) :
        \A m \in CondLaps(key, cond) :
            m[1] = l[1] => (LapAt(l) < LapAt(m) \/ (LapAt(l) = LapAt(m) /\ l[2] <= m[2]))}

\* t is the i-th smallest duration of the laps L
IsNthFastest(t, i, L) ==
    /\ Cardinality({l \in L : LapAt(l) < t}) < i
    /\ i <= Cardinality({l \in L : LapAt(l) <= t})

\* sl holds the min(N, |L|) fastest laps of L, in ascending order
TopOf(sl, L) ==
    /\ Len(sl) = Min2(pb_count, Cardinality(L))
    /\ \A i \in 1..Len(sl) : IsNthFastest(sl[i].lap_time, i, L)

\* C2, as stated: the slots of each (track, car, condition) are the N fastest
\* of all the laps of that condition of all processed sources of that
\* (track, car), ascending; two laps of one source can both hold slots.
C2_AllLaps ==
    ScanDone =>
        \A key \in Keys, cond \in Conditions :
            TopOf(SlotsOf(key, cond), CondLaps(key, cond))

\* C2, amended: each processed source enters only its fastest lap of the
\* condition; the slots are the N fastest of these laps, ascending, each slot
\* names the source of its lap, and no source holds two slots of a condition.
C2_BestPerSource ==
    ScanDone =>
        \A key \in Keys, cond \in Conditions :
            LET sl == SlotsOf(key, cond)
                L == BestCondLaps(key, cond)
            IN  /\ TopOf(sl, L)
                /\ \A i \in 1..Len(sl) :
                      \E l \in L : l[1] = sl[i].file_path /\ LapAt(l) = sl[i].lap_time
                /\ \A i, j \in 1..Len(sl) : sl[i].file_path = sl[j].file_path => i = j

\* C2: two slots of a condition are filled while a processed source has a
\* second lap of that condition that would have been among the two fastest.
C2_Witness ==
    /\ ScanDone
    /\ \E key \in Keys, cond \in Conditions :
          /\ Len(SlotsOf(key, cond)) = 2
          /\ \E l \in CondLaps(key, cond) \ BestCondLaps(key, cond) :
                LapAt(l) < SlotsOf(key, cond)[2].lap_time

\* C3: in every scan run each (track, car, condition) group has at most N
\* slots, their ranks are exactly 1..k in order, and lap times do not
\* decrease with the rank.
C3_RankedSlots ==
    out.op = "scan" =>
        \A key \in Keys, cond \in Conditions :
            LET sl == SlotsOf(key, cond)
            IN  /\ Len(sl) <= pb_count
                /\ \A i \in 1..Len(sl) : sl[i].rank = i
                /\ \A i, j \in 1..Len(sl) : i < j => sl[i].lap_time <= sl[j].lap_time

\* C3: a group filled up to N slots while more sources had a lap for it.
C3_Witness ==
    /\ ScanDone
    /\ \E key \in Keys, cond \in Conditions :
          /\ Len(SlotsOf(key, cond)) = pb_count
          /\ Cardinality(BestCondLaps(key, cond)) > pb_count

\* the positions of files_to_pb that reference a source, in processing order
SlotsOfSource(slots, src) ==
    SelectSeq(Tup([i \in 1..Len(slots) |-> i]), LAMBDA i : slots[i].file_path = src)

\* per (track, car): the dry slots by rank, then the wet slots by rank
InProcessingOrder(slots) ==
    \A i, j \in 1..Len(slots) :
        (i < j /\ slots[i].track = slots[j].track /\ slots[i].car = slots[j].car) =>
            \/ slots[i].condition = "dry" /\ slots[j].condition = "wet"
            \/ slots[i].condition = slots[j].condition /\ slots[i].rank < slots[j].rank

\* C4: in a completed non-dry-run scan every source that supplies a slot is
\* copied exactly once, under the file name of the first slot that references
\* it in processing order; every later slot of the same source is appended to
\* its additional slots and writes no file.
C4_CopiedOnce ==
    [][(out'.op = "scan" /\ out'.ret = "result" /\ ~out'.dry_run) =>
         LET slots == out'.files_to_pb
             copied == out'.copied_files
             written == dirs'[out'.pbs_dir].items \ dirs[out'.pbs_dir].items
         IN  /\ InProcessingOrder(slots)
             /\ {copied[i].source : i \in 1..Len(copied)}
                  = {slots[k].file_path : k \in 1..Len(slots)}
             /\ \A i, j \in 1..Len(copied) :
                   (copied[i].source = copied[j].source
                      \/ copied[i].primary_filename = copied[j].primary_filename) => i = j
             /\ \A i \in 1..Len(copied) :
                   LET at == SlotsOfSource(slots, copied[i].source)
                   IN  /\ copied[i].primary_filename = slots[at[1]].new_filename
                       /\ copied[i].primary_condition = slots[at[1]].condition
                       /\ copied[i].primary_rank = slots[at[1]].rank
                       /\ Len(copied[i].additional_pbs) = Len(at) - 1
                       /\ \A k \in 2..Len(at) :
                             /\ copied[i].additional_pbs[k - 1].filename
                                  = slots[at[k]].new_filename
                             /\ copied[i].additional_pbs[k - 1].condition
                                  = slots[at[k]].condition
                             /\ copied[i].additional_pbs[k - 1].rank = slots[at[k]].rank
                       /\ copied[i].primary_filename \in dirs'[out'.pbs_dir].items
             /\ {f \in written : f.ext = "ld"}
                  \subseteq {copied[i].primary_filename : i \in 1..Len(copied)}
       ]_vars

\* C4: a copied source that holds its primary slot and an additional one.
C4_Witness ==
    /\ ScanDone
    /\ ~out.dry_run
    /\ \E i \in 1..Len(out.copied_files) :
          /\ out.copied_files[i].additional_pbs # << >>
          /\ out.copied_files[i].primary_condition = "dry"
          /\ out.copied_files[i].additional_pbs[1].condition = "wet"
          /\ out.copied_files[i].primary_filename \in dirs[out.pbs_dir].items

NoSourceTwice(slots) ==
    \A i, j \in 1..Len(slots) : slots[i].file_path = slots[j].file_path => i = j

\* C5: in the result of every scan run, dry run or not, files_copied <= pbs,
\* and they are equal iff no source supplies more than one slot.
C5_CopiedVsSlots ==
    ScanDone =>
        /\ out.files_copied <= out.pbs
        /\ (out.files_copied = out.pbs) <=> NoSourceTwice(out.files_to_pb)

Abs(x) == IF x < 0 THEN -x ELSE x

\* C6: for every track, car, condition, rank in 1..10, lap time and date,
\* parsing the generated PB file name recovers the track, the car, the
\* condition, the rank and the (calendar) date, and the lap time to the
\* millisecond.
C6_RoundTrip ==
    pure.fn = "pb_filename" =>
        /\ pure.parsed.ok
        /\ pure.parsed.track = pure.track
        /\ pure.parsed.car = pure.car
        /\ pure.parsed.condition = pure.condition
        /\ pure.parsed.rank = pure.rank
        /\ pure.parsed.date.ymd = pure.date.ymd
        /\ 2 * Abs(pure.parsed.lap_time - pure.lap_time) <= TicksPerMs

\* the lap time a PB file name carries
NamedLapTime(f) ==
    LET tok == f.parts[Len(f.parts) - 1]
    IN  Sec(tok.min * SecPerMin) + Ms(tok.ms)

\* f is a name generate_pb_filename gives to a slot of the same
\* (track, car, condition, rank) as sl
GeneratedFor(f, sl) ==
    /\ f.ext = "ld"
    /\ Len(f.parts) = Len(sl.track) + Len(sl.car) + 4
    /\ f.parts = sl.track \o sl.car
                   \o << NameTok(sl.condition), rank_suffix(sl.rank),
                         f.parts[Len(f.parts) - 1], f.parts[Len(f.parts)] >>

\* C7: the previous time of every slot of a scan is the lap time of an
\* artifact of the newest snapshot generated for the same (track, car,
\* condition, rank), and is absent when the snapshot holds none.
C7_SameRankPrevious ==
    [][out'.op = "scan" =>
         \A i \in 1..Len(out'.files_to_pb) :
            LET sl == out'.files_to_pb[i]
                prev == out'.comparison[i].previous_time
                G == IF ExistingDirs(dirs) = {} THEN {}
                     ELSE {f \in dirs[NewestDir(dirs)].items : GeneratedFor(f, sl)}
            IN  /\ prev.has <=> G # {}
                /\ prev.has => \E f \in G : prev.t = NamedLapTime(f)
       ]_vars

\* C8: delta = current - previous when a previous slot matched and undefined
\* otherwise; is_new_pb iff the previous slot is absent or delta < 0; without
\* a previous snapshot directory every slot has no previous time, no delta
\* and is flagged new.
C8_Delta ==
    [][out'.op = "scan" =>
         \A i \in 1..Len(out'.files_to_pb) :
            LET c == out'.comparison[i]
            IN  /\ c.lap_time = out'.files_to_pb[i].lap_time
                /\ c.delta.has <=> c.previous_time.has
                /\ c.delta.has => c.delta.v = c.lap_time - c.previous_time.t
                /\ c.is_new_pb <=> (~c.previous_time.has \/ c.delta.v < 0)
                /\ ExistingDirs(dirs) = {} =>
                      (~c.previous_time.has /\ ~c.delta.has /\ c.is_new_pb)
       ]_vars

\* C8: a slot that improves on the previous time of its rank, next to one
\* that does not.
C8_Witness ==
    /\ out.op = "scan"
    /\ \E i, j \in 1..Len(out.comparison) :
          /\ out.comparison[i].delta.has
          /\ out.comparison[i].delta.v < 0
          /\ out.comparison[i].is_new_pb
          /\ out.comparison[j].delta.has
          /\ out.comparison[j].delta.v > 0
          /\ ~out.comparison[j].is_new_pb

\* C9: a successful undo removes exactly the output directory with the
\* greatest timestamp; every other output directory and its contents and
\* every loose file of the root is unchanged, and the other directories are
\* still listed by get_undo_candidates.
C9_UndoNewest ==
    [][(out'.op = "undo" /\ out'.folder # NoDir) =>
         /\ out'.folder \in ExistingDirs(dirs)
         /\ \A t \in ExistingDirs(dirs) : t <= out'.folder
         /\ ExistingDirs(dirs') = ExistingDirs(dirs) \ {out'.folder}
         /\ \A t \in Timestamps \ {out'.folder} : dirs'[t] = dirs[t]
         /\ files' = files
         /\ ldxs' = ldxs
         /\ {get_undo_candidates(dirs')[i].folder :
                i \in 1..Len(get_undo_candidates(dirs'))}
              = ExistingDirs(dirs) \ {out'.folder}
       ]_vars

\* C9: after a successful undo an older output directory is still there, with
\* its files, next to loose files in the root.
C9_Witness ==
    /\ out.op = "undo"
    /\ out.folder # NoDir
    /\ ~dirs[out.folder].exists
    /\ \E t \in ExistingDirs(dirs) : t < out.folder /\ dirs[t].items # {}
    /\ files # {}

\* C10: the cleanup candidates are files lying directly in the root, never a
\* file of an output directory, and cleanup_old_files leaves every output
\* directory and its contents unchanged.
C10_CleanupRootOnly ==
    /\ [](\A f \in get_cleanup_candidates(files, ldxs, dirs) :
             /\ \E s \in files \cup ldxs : f = Loose(s, f.ext)
             /\ \A t \in ExistingDirs(dirs) : f \notin dirs[t].items)
    /\ [][out'.op = "cleanup" =>
            /\ dirs' = dirs
            /\ \A f \in out'.candidates :
                  /\ \E s \in files \cup ldxs : f = Loose(s, f.ext)
                  /\ \A t \in ExistingDirs(dirs) : f \notin dirs[t].items]_vars

\* C10: a cleanup has deleted loose files while an output directory held
\* copied .ld files.
C10_Witness ==
    /\ out.op = "cleanup"
    /\ out.success_count > 0
    /\ \E t \in ExistingDirs(dirs) : \E f \in dirs[t].items : f.ext = "ld"

\* ------------------------------------------------------------------------
\* Cleanup and undo through the menus (SpecMenu)
\* ------------------------------------------------------------------------

\* the loose .ld and .ldx files of the root
LooseFiles(fs, lx) ==
    {Loose(s, "ld") : s \in fs} \cup {Loose(s, "ldx") : s \in lx}

\* the step in which the cleanup menu calls cleanup_old_files
CleanupExecuted ==
    /\ menu.at = "cleanup_check"
    /\ TypedAccepted(menu.confirmation)
    /\ menu'.at = "main"

\* C11: the cleanup deletes no file outside the set the preview listed, and
\* its counts add up: success_count + failure_count is the number of
\* candidates, there is one error per failure, every deleted candidate is
\* gone and every failed candidate is still there.
C11_DeletesPreviewed ==
    [][CleanupExecuted =>
         LET before == LooseFiles(files, ldxs)
             after == LooseFiles(files', ldxs')
         IN  /\ before \ after \subseteq menu.preview
             /\ out'.candidates = menu.preview
             /\ out'.success_count + out'.error_count = Cardinality(menu.preview)
             /\ Cardinality(out'.errors) = out'.error_count
             /\ (out'.candidates \ out'.errors) \cap after = {}
             /\ out'.errors \subseteq after]_vars

\* some file of the root, some file of an output directory or an output
\* directory itself is gone after the step
Destroyed ==
    \/ ~(LooseFiles(files, ldxs) \subseteq LooseFiles(files', ldxs'))
    \/ \E t \in Timestamps :
          \/ ~(dirs[t].items \subseteq dirs'[t].items)
          \/ dirs[t].exists /\ ~dirs'[t].exists

\* the step calls cleanup_old_files or undo_last_scan
DestructiveCall == out.op = "idle" /\ out'.op \in {"cleanup", "undo"}

\* C12: in the menus, cleanup_old_files and undo_last_scan are called, and
\* a file or directory is deleted, only in the step that follows a
\* non-empty preview, the key 'y' and the typed line 'delete', each in the
\* flow of its own menu.
C12_ConfirmedTwice ==
    [][(Destroyed \/ DestructiveCall) =>
         /\ menu.at \in {"cleanup_check", "undo_check"}
         /\ menu.key = "y"
         /\ menu.confirmation = "delete"
         /\ menu.at = "cleanup_check" => menu.preview # {} /\ out'.op = "cleanup"
         /\ menu.at = "undo_check" => menu.preview # NoDir /\ out'.op = "undo"]_vars

\* C12: a confirmed cleanup has deleted files, or a confirmed undo has
\* removed an output directory.
C12_Witness ==
    /\ menu = AtMain
    /\ \/ out.op = "cleanup" /\ out.success_count > 0
       \/ out.op = "undo" /\ out.folder # NoDir

\* ------------------------------------------------------------------------
\* Failures and skips during a scan (Spec)
\* ------------------------------------------------------------------------

\* the step is a scan in which a copy raised
CopyFailed == out'.op = "scan" /\ ~out'.dry_run /\ faults' = faults + 1

\* the sources of the slots, and the sources that were copied
SlotSources(o) == {o.files_to_pb[i].file_path : i \in 1..Len(o.files_to_pb)}
CopiedSources(o) == {o.copied_files[i].source : i \in 1..Len(o.copied_files)}

\* C13: a scan in which the copy of one artifact fails still returns its
\* result with the report, and every other artifact is copied: at most the
\* one source whose copy failed is missing from the copied files.
C13_CopyFailureTolerated ==
    [][CopyFailed =>
         /\ out'.ret = "result"
         /\ out'.report_rows # << >>
         /\ Cardinality(SlotSources(out') \ CopiedSources(out')) <= 1]_vars

\* the laps of a probed source that classify as dry, wet or gap
UsableLaps(src, dry, wet, tol) ==
    {i \in 1..Len(src.lap_times) :
       classify_lap(src.lap_times[i], dry, wet, tol) # "invalid"}

\* a source the loop has to skip: no companion file, a parsing that raises,
\* or no lap that is dry, wet or gap
Unusable(src, dry, wet, tol) ==
    \/ ~src.has_ldx
    \/ src.raises
    \/ UsableLaps(src, dry, wet, tol) = {}

\* C14: the loop counts every source without a usable lap, without a
\* companion file or with a raising parse as skipped and not as processed,
\* and goes on: skipped is the number of such sources, processed the number
\* of the others.
C14_SkippedSources ==
    pure.fn = "source_loop" =>
      LET n == Len(pure.sources)
          bad == {i \in 1..n : Unusable(pure.sources[i], pure.dry, pure.wet, pure.tol)}
      IN  /\ \A i \in bad : pure.result.outcomes[i] = "skipped"
          /\ pure.result.skipped = Cardinality(bad)
          /\ pure.result.processed = n - Cardinality(bad)

\* C15: every scan ends with its summary: the result that carries the
\* processed, skipped, PB and copied counts is returned also when the root
\* holds no source file and when a copy failed.
C15_AlwaysSummary ==
    out.op = "scan" =>
      /\ out.ret = "result"
      /\ out.processed + out.skipped = Cardinality(files)
      /\ out.pbs = Len(out.files_to_pb)
      /\ out.files_copied <= out.pbs

\* ------------------------------------------------------------------------
\* Classification ranges (SpecPure)
\* ------------------------------------------------------------------------

\* (overlaps, dry_max, wet_min) of the classified lap's benchmarks
Overlap == check_threshold_overlap(pure.dry, pure.wet, pure.tol)

\* the lap lies in [dry*(1-tol), dry*(1+tol)], bounds included
InDryRange ==
    /\ pure.dry * (100 - pure.tol) <= pure.lap_time * 100
    /\ pure.lap_time * 100 <= pure.dry * (100 + pure.tol)

\* the lap lies in [wet*(1-tol), wet*(1+tol)], bounds included
InWetRange ==
    /\ pure.wet * (100 - pure.tol) <= pure.lap_time * 100
    /\ pure.lap_time * 100 <= pure.wet * (100 + pure.tol)

\* C16: a lap is classified gap exactly when dry_max < wet_min and the lap
\* lies strictly between dry_max and wet_min; so when the thresholds overlap
\* (wet_min <= dry_max) no lap is a gap lap: it is dry, wet or invalid.
C16_GapIff ==
    Classified =>
      /\ pure.result = "gap" <=>
            /\ Overlap.dry_max < Overlap.wet_min
            /\ Overlap.dry_max < pure.lap_time * 100
            /\ pure.lap_time * 100 < Overlap.wet_min
      /\ Overlap.overlaps => pure.result \in {"dry", "wet", "invalid"}

\* C16: a lap one tick above dry_max, with wet_min further up, was
\* classified gap.
C16_Witness ==
    /\ Classified
    /\ pure.result = "gap"
    /\ (pure.lap_time - 1) * 100 = Overlap.dry_max
    /\ ~Overlap.overlaps

\* C17: a lap inside both the dry and the wet range is classified dry; a lap
\* inside the wet range only is classified wet.
C17_DryWinsOverlap ==
    Classified =>
      /\ InDryRange /\ InWetRange => pure.result = "dry"
      /\ InWetRange /\ ~InDryRange => pure.result = "wet"

\* C17: a lap on the upper bound of the dry range and inside the wet range
\* was classified dry.
C17_Witness ==
    /\ Classified
    /\ pure.lap_time * 100 = Overlap.dry_max
    /\ InWetRange
    /\ pure.result = "dry"

\* ------------------------------------------------------------------------
\* Report rows and output directories (Spec)
\* ------------------------------------------------------------------------

\* the gap laps of the processed sources, each named by its source and its
\* place in the lap list
GapLaps ==
    UNION {{<<s, i>> : i \in {j \in 1..Len(SrcLaps(s)) :
                                classify_lap(SrcLaps(s)[j], SrcBench(s).dry,
                                             SrcBench(s).wet,
                                             get_tolerance(get_car_category(SrcCar(s)),
                                                           "dry")) = "gap"}} :
           s \in Processed}

RowsWith(action) == SelectSeq(out.report_rows, LAMBDA r : r.action = action)

\* C18: the report of every scan has one PB row per slot, one GAP_WARNING
\* row per gap lap of every processed source and no other row; the number of
\* rows is the PB count plus the number of gap laps.
C18_ReportRows ==
    out.op = "scan" =>
      LET pbs == RowsWith("PB")
          gaps == RowsWith("GAP_WARNING")
      IN  /\ Len(pbs) = Len(out.files_to_pb)
          /\ \A i \in 1..Len(pbs) :
                /\ pbs[i].original_file = out.files_to_pb[i].file_path
                /\ pbs[i].lap_time = out.files_to_pb[i].lap_time
          /\ \A s \in Sources :
                Cardinality({i \in 1..Len(gaps) : gaps[i].original_file = s})
                  = Cardinality({g \in GapLaps : g[1] = s})
          /\ \A i \in 1..Len(gaps) :
                \E g \in GapLaps : /\ gaps[i].original_file = g[1]
                                   /\ gaps[i].lap_time = SrcLaps(g[1])[g[2]]
          /\ Len(out.report_rows) = out.pbs + Cardinality(GapLaps)

\* the step is a scan that found source files
ScanStep == out'.op = "scan" /\ out'.ret # "none"

\* C19: a non-dry scan creates one output directory, which did not exist
\* before the run and is not the snapshot the run compares with, and leaves
\* every other output directory alone; a dry run creates no directory and
\* copies nothing.
C19_FreshOutputDir ==
    [][ScanStep =>
         IF out'.dry_run
         THEN dirs' = dirs /\ out'.copied_files = << >>
         ELSE /\ ~dirs[out'.pbs_dir].exists
              /\ dirs'[out'.pbs_dir].exists
              /\ \A t \in Timestamps \ {out'.pbs_dir} : dirs'[t] = dirs[t]
              /\ out'.prev_dir # out'.pbs_dir]_vars

C21_MaxSafeTolerance ==
    pure.fn = "calculate_max_safe_tolerance" =>
      IF pure.dry >= pure.wet
      THEN pure.max_tol = NoTol
      ELSE /\ pure.max_tol # NoTol
           /\ pure.max_tol.num * (pure.wet + pure.dry)
                = (pure.wet - pure.dry) * pure.max_tol.den
           /\ pure.dry * (pure.max_tol.den + pure.max_tol.num)
                = pure.wet * (pure.max_tol.den - pure.max_tol.num)
           /\ pure.overlaps <=> FracLeq(pure.max_tol, pure.tol)

Recommended == pure.fn = "recommend_tolerance"

\* C22: recommend_tolerance is undefined exactly when the maximum safe
\* tolerance is, that is when dry >= wet; a defined result is a whole number
\* of percent between 5% and 30%.
C22_RecommendedRange ==
    Recommended =>
      /\ pure.result = NoTol <=> pure.max_tol = NoTol
      /\ pure.result = NoTol <=> pure.dry >= pure.wet
      /\ pure.result # NoTol =>
            /\ pure.result.den = 100
            /\ MinRecommendedPct <= pure.result.num
            /\ pure.result.num <= MaxRecommendedPct

\* C22: a maximum safe tolerance of 12.5% gave 10.5% before rounding and a
\* result of a whole percent strictly inside the range.
C22_Witness ==
    /\ Recommended
    /\ pure.max_tol # NoTol
    /\ pure.max_tol.num * 8 = pure.max_tol.den
    /\ pure.result.num > MinRecommendedPct
    /\ pure.result.num < MaxRecommendedPct

LowestBound ==
    Min2(pure.dry * (100 - pure.tol), pure.wet * (100 - pure.tol))

HighestBound ==
    -Min2(-(pure.dry * (100 + pure.tol)), -(pure.wet * (100 + pure.tol)))

\* C23: when check_threshold_overlap reports overlap there is no dead zone:
\* no lap between the lowest and the highest bound of the two ranges is
\* classified invalid, whichever of dry and wet is larger.
C23_NoDeadZone ==
    Classified /\ Overlap.overlaps
               /\ LowestBound <= pure.lap_time * 100
               /\ pure.lap_time * 100 <= HighestBound
      => pure.result # "invalid"

\* ------------------------------------------------------------------------
\* Ties, undo after a failure, counters and rescans (Spec)
\* ------------------------------------------------------------------------

\* two candidate laps of one (track, car, condition) with equal duration,
\* the first from the source met earlier in the listing
Tied(l, m) == LapAt(l) = LapAt(m) /\ l[1] < m[1]

HoldsSlot(sl, s) == \E i \in 1..Len(sl) : sl[i].file_path = s

\* C25: of two candidate laps of a (track, car, condition) with equal
\* duration, the one of the source met first has the lower rank, and when
\* only one of them gets a slot it is that one.
C25_TieFirstEncountered ==
    ScanDone =>
      \A key \in Keys, cond \in Conditions :
        LET sl == SlotsOf(key, cond)
            L == BestCondLaps(key, cond)
        IN  \A l, m \in L :
              Tied(l, m) =>
                /\ HoldsSlot(sl, m[1]) => HoldsSlot(sl, l[1])
                /\ \A i, j \in 1..Len(sl) :
                      sl[i].file_path = l[1] /\ sl[j].file_path = m[1] => i < j

\* C25: two sources have the same wet time and only the first one got the
\* single wet slot.
C25_Witness ==
    /\ ScanDone
    /\ \E key \in Keys, cond \in Conditions :
          \E l, m \in BestCondLaps(key, cond) :
            /\ Tied(l, m)
            /\ HoldsSlot(SlotsOf(key, cond), l[1])
            /\ ~HoldsSlot(SlotsOf(key, cond), m[1])

\* the step is an undo that failed / an undo issued right after a failed one
UndoFailed == out'.op = "undo" /\ out'.error
UndoRetried == out.op = "undo" /\ out.error /\ out'.op = "undo" /\ out' # out

\* C26: an undo that fails returns None with its error; it has touched only
\* the newest output directory, which still exists and has lost at most
\* some of its items, while the loose files and every other directory are
\* as before; an undo issued next targets the same directory and, if it
\* succeeds, removes it.
C26_UndoFailure ==
    [][/\ UndoFailed =>
            /\ out'.folder = NoDir
            /\ out'.target = NewestDir(dirs)
            /\ files' = files /\ ldxs' = ldxs
            /\ \A t \in Timestamps \ {out'.target} : dirs'[t] = dirs[t]
            /\ dirs'[out'.target].exists
            /\ dirs'[out'.target].items \subseteq dirs[out'.target].items
       /\ UndoRetried =>
            /\ out'.target = out.target
            /\ ~out'.error =>
                  /\ out'.folder = out.target
                  /\ dirs' = [dirs EXCEPT ![out.target] = EmptyDir]]_vars

\* C26: an undo has failed after deleting some but not all items of the
\* newest output directory (fewer are left than the .ld files it held, their
\* companions and the operation log), and an older output directory exists.
C26_Witness ==
    /\ out.op = "undo"
    /\ out.error
    /\ Cardinality(dirs[out.target].items) < 2 * out.file_count + 1
    /\ dirs[out.target].items # {}
    /\ \E t \in ExistingDirs(dirs) : t < out.target /\ dirs[t].items # {}

\* C27: at the end of the source processing of a scan, processed + skipped
\* is the number of .ld files of the root.
C27_CountedOnce ==
    out.op = "scan" /\ out.ret # "none" =>
      out.processed + out.skipped = Cardinality(files)

\* C27: a scan has processed one recording and skipped another one, whose
\* companion file is missing.
C27_Witness ==
    /\ out.op = "scan"
    /\ out.processed > 0
    /\ out.skipped > 0
    /\ \E s \in files : s \notin ldxs

\* the step is a completed scan that directly follows a completed non-dry
\* scan: the sources and the PB count are those of the first scan
Rescan ==
    /\ out.op = "scan" /\ ~out.dry_run /\ out.ret = "result"
    /\ out'.op = "scan" /\ out'.ret = "result"

\* C28: in a scan that directly follows a non-dry scan of the same sources,
\* every slot finds its previous time in the snapshot of the first scan and
\* no slot is flagged as a new PB.
C28_RescanNoImprovement ==
    [][Rescan =>
         \A i \in 1..Len(out'.comparison) :
            /\ out'.comparison[i].previous_time.has
            /\ ~out'.comparison[i].is_new_pb]_vars

\* the step is a successful undo that directly follows a non-dry scan
UndoAfterScan ==
    /\ out.op = "scan" /\ ~out.dry_run
    /\ out'.op = "undo" /\ out'.folder # NoDir

\* C29: a non-dry scan followed by a successful undo leaves the output
\* directories as they were before the scan: the scan adds one directory
\* that did not exist and changes no other, and the undo removes that
\* directory and nothing else.
C29_ScanUndoRestores ==
    [][/\ (ScanStep /\ ~out'.dry_run) =>
            /\ ~dirs[out'.pbs_dir].exists
            /\ \A t \in Timestamps \ {out'.pbs_dir} : dirs'[t] = dirs[t]
       /\ UndoAfterScan =>
            /\ out'.folder = out.pbs_dir
            /\ dirs' = [dirs EXCEPT ![out.pbs_dir] = EmptyDir]]_vars

\* ---- overlap status of editor and scanner (SpecPure) ----

\* C30: for a (track, category) with both benchmarks set, the overlap status
\* the benchmark editor shows equals the one the scanner detects, whatever
\* the category file and the settings hold.
C30_SameOverlapStatus ==
    pure.fn = "overlap_status" =>
      /\ pure.editor_tol = pure.scanner_tol
      /\ pure.shown = pure.detected

====
